---- MODULE Spec2Model ----
(***************************************************************************)
(* pacroxy: a forward proxy that asks a PAC script which upstream to use   *)
(* and relays the request through the first candidate that works.          *)
(*                                                                         *)
(* The model follows the newest of the three program files of the          *)
(* repository (the one with the PAC file watcher); the three files each    *)
(* declare package main and func main, so one build holds exactly one of   *)
(* them.  The gpac library, net/http and the network are the environment:  *)
(* every result they can hand back is a nondeterministic choice.           *)
(***************************************************************************)
EXTENDS Integers, Sequences, FiniteSets, TLC

\* ------------------------------------------------------------------ bounds
\* Longest candidate list FindProxy returns in the model.
MaxCand == 3
\* Number of reload ticks of the watcher explored.
MaxTicks == 1
\* Bytes each endpoint of a tunnel sends at most.
MaxBytes == 2
\* values (header lines) a request carries under one header name
MaxVals == 2

\* ------------------------------------------------------- environment values
\* One request task beside the watcher: requests share nothing but s.pac,
\* which they only read.
Reqs == {"r1"}
Methods == {"CONNECT", "GET"}
\* gpac.Proxy types told apart by IsDirect() and IsSOCKS().
Kinds == {"DIRECT", "PROXY", "SOCKS"}
\* PAC source texts (what Parser.Source() returns).
Texts == {"pacA", "pacB"}
\* Status codes an upstream answers a forwarded request with.
UpCodes == {200, 503}

\* error values; the zero record is Go's nil error
NoErr == [op |-> "nil", cand |-> 0]
FindErr == [op |-> "FindProxy", cand |-> 0]
HijackErr == [op |-> "Hijack", cand |-> 0]
DialErr(i) == [op |-> "dial", cand |-> i]
RoundTripErr(i) == [op |-> "roundtrip", cand |-> i]
\* fixed texts handed to http.Error
TextNoProxy == [op |-> "No Proxy Available", cand |-> 0]
TextNoHijack == [op |-> "Hijacking not supported", cand |-> 0]

\* ------------------------------------------------------------ headers
\* hopHeaders, lines 59-68, in the order removeHopHeaders walks them
hopHeaders ==
    <<"Connection", "Keep-Alive", "Proxy-Authenticate", "Proxy-Authorization",
      "Te", "Trailers", "Transfer-Encoding", "Upgrade">>

\* Header names a request carries, in the canonical form net/http stores
\* them under: two hop-by-hop names and an end-to-end one.
HeaderNames == {"Connection", "Te", "X-Foo"}

\* A header value is kept as strings.Split(value, ",") yields it, so the
\* empty string is <<"">>.  The values are: "", "trailers", "x-foo, te"
\* and "connection,".
EmptyValue == <<"">>
Values == {EmptyValue, <<"trailers">>, <<"x-foo", " te">>, <<"connection", "">>}

\* the values of one name: one per header line, in the order received
ValueLists == UNION {[1..n -> Values] : n \in 1..MaxVals}

\* http.Header: canonical name -> its values
Headers == UNION {[S -> ValueLists] : S \in SUBSET HeaderNames}

\* A request with no header of the names above.
NoHeader == <<>>

\* strings.TrimSpace on the tokens of Values
TrimSpace(f) == IF f = " te" THEN "te" ELSE f

\* textproto.CanonicalMIMEHeaderKey, which Get and Del apply to their key
CanonicalKey(k) ==
    CASE k = "connection" -> "Connection"
      [] k = "te" -> "Te"
      [] k = "trailers" -> "Trailers"
      [] k = "x-foo" -> "X-Foo"
      [] OTHER -> k

\* h.Get(k), lines 73 and 84: the first value stored under k, "" if none
Get(h, k) ==
    IF CanonicalKey(k) \in DOMAIN h THEN h[CanonicalKey(k)][1] ELSE EmptyValue

\* Mutant: only the first value of the key is dropped.
Del_FirstValue(h, k) ==
    LET c == CanonicalKey(k)
    IN IF c \in DOMAIN h /\ Len(h[c]) > 1
         THEN [h EXCEPT ![c] = Tail(@)]
         ELSE [n \in DOMAIN h \ {c} |-> h[n]]

\* h.Del(k), lines 76 and 91: the key goes with all its values
Del(h, k) == [n \in DOMAIN h \ {CanonicalKey(k)} |-> h[n]]

\* lines 74-78: the loop over the tokens of one Connection value
RECURSIVE DelTokens(_, _)
DelTokens(h, c) ==
    IF c = <<>> THEN h
    ELSE LET f == TrimSpace(Head(c))
         IN DelTokens(IF f # "" THEN Del(h, f) ELSE h, Tail(c))

\* removeConnectionHeaders, lines 72-80
removeConnectionHeaders(h) ==
    LET c == Get(h, "Connection")
    IN IF c # EmptyValue THEN DelTokens(h, c) ELSE h

\* lines 83-92: the loop over hopHeaders from position i on
RECURSIVE HopLoop(_, _)
HopLoop(h, i) ==
    IF i > Len(hopHeaders) THEN h
    ELSE LET k == hopHeaders[i]
             hv == Get(h, k)
         IN IF hv = EmptyValue THEN HopLoop(h, i + 1)
            ELSE IF k = "Te" /\ hv = <<"trailers">> THEN HopLoop(h, i + 1)
            ELSE HopLoop(Del(h, k), i + 1)

\* removeHopHeaders, lines 82-93
removeHopHeaders(h) == HopLoop(h, 1)

\* prune, lines 96-99
prune(h) == removeHopHeaders(removeConnectionHeaders(h))

\* ------------------------------------------------------------ targets
\* r.Host of a CONNECT request, as the pieces of the string: a name or an
\* address literal in brackets, then ":" and the port.
Target(name, port, bracketed) ==
    IF bracketed THEN <<"[", name, "]", ":", port>> ELSE <<name, ":", port>>

Ports == {"443", "8443"}

\* The last one has no port.
Targets ==
    {Target("example.com", p, FALSE) : p \in Ports}
        \cup {Target("::1", p, TRUE) : p \in Ports}
        \cup {<<"example.com">>}

\* The target of the requests whose target plays no part.
DefaultTarget == Target("example.com", "443", FALSE)

\* position of the last ":" of a, 0 if there is none
LastColon(a) ==
    LET S == {i \in 1..Len(a) : a[i] = ":"}
    IN IF S = {} THEN 0 ELSE CHOOSE i \in S : \A j \in S : j <= i

\* net.SplitHostPort, line 102; its error is dropped, and with an error
\* both results are empty.
SplitHostPort(a) ==
    LET i == LastColon(a)
        none == [host |-> <<>>, port |-> <<>>]
    IN IF i = 0 THEN none
       ELSE IF a[1] = "["
         THEN IF i > 2 /\ a[i - 1] = "]"
                THEN [host |-> SubSeq(a, 2, i - 2), port |-> SubSeq(a, i + 1, Len(a))]
                ELSE none
         ELSE IF \E j \in 1..(i - 1) : a[j] \in {":", "[", "]"}
                THEN none
                ELSE [host |-> SubSeq(a, 1, i - 1), port |-> SubSeq(a, i + 1, Len(a))]

\* Mutant: the port never goes into the lookup key.
LookupURL_NoPort(a) ==
    <<"https://">> \o SplitHostPort(a).host \o <<"/">>

\* lines 102-109: the URL handed to FindProxy for a CONNECT to a
LookupURL(a) ==
    LET hp == SplitHostPort(a)
    IN IF hp.port = <<"443">>
         THEN <<"https://">> \o hp.host \o <<"/">>
         ELSE <<"https://">> \o hp.host \o <<":">> \o hp.port \o <<"/">>

VARIABLES
    pac,        \* s.pac: the active *gpac.Parser, an index into heap (0 is nil)
    heap,       \* the parsers ever built by gpac.From: <<[src, good]>>
    stored,     \* every value s.pac has held so far
    mutex,      \* s.Mutex: "free" or the task holding it
    crashed,    \* the process died of an unrecovered panic
    watch,      \* the watcher goroutine: its position and locals
    req,        \* the request tasks: position, locals, what the client got
    tun,        \* the tunnel's two connections and the buffer Hijack returned
    task        \* the two pipe goroutines of the tunnel

vars == <<pac, heap, stored, mutex, crashed, watch, req, tun, task>>

\* the two connections of a tunnel, named by the endpoint at the far end:
\* src is the client's, dst the upstream's
Sides == {"client", "upstream"}
\* pipe(dst, src) copies up, pipe(src, dst) copies down
Dirs == {"up", "down"}

\* ------------------------------------------------------------- the server
\* New: the first load succeeded (otherwise main exits before serving).
NewServer ==
    /\ heap = <<[src |-> "pacA", good |-> TRUE]>>
    /\ pac = 1
    /\ stored = {1}
    /\ mutex = "free"
    /\ crashed = FALSE

InitWatch ==
    watch = [pc |-> "sleep", pac |-> 0, err |-> FALSE, ticks |-> 0, before |-> 1]

InitReq ==
    req = [r \in Reqs |->
            [pc |-> "idle", method |-> "none", ref |-> 0, proxies |-> <<>>,
             idx |-> 0, proxy |-> 0, err |-> NoErr, perr |-> NoErr,
             dst |-> "none", tried |-> <<>>, logs |-> <<>>, status |-> <<>>,
             body |-> <<>>, hijacked |-> FALSE, pipes |-> 0, copied |-> FALSE,
             received |-> NoHeader, header |-> NoHeader,
             host |-> DefaultTarget, url |-> <<>>, dialed |-> <<>>]]

\* No tunnel yet: no connection pair, no pipe goroutine.
InitTunnel ==
    /\ tun = [peeked |-> <<>>, buffered |-> 0,
              inbox |-> [s \in Sides |-> <<>>],
              end |-> [s \in Sides |-> "open"],
              sent |-> [s \in Sides |-> <<>>],
              delivered |-> [s \in Sides |-> <<>>],
              closed |-> [s \in Sides |-> FALSE]]
    /\ task = [d \in Dirs |-> [pc |-> "none", chunk |-> <<>>]]

Init == NewServer /\ InitWatch /\ InitReq /\ InitTunnel

\* ----------------------------------------------------------- http helpers
\* w.WriteHeader(code): the call is recorded; net/http puts only the first
\* one on the wire.
WriteHeader(q, code, from) ==
    [q EXCEPT !.status = Append(@, [code |-> code, from |-> from])]

\* http.Error(w, text, code): WriteHeader(code) then the text as body.
HttpError(q, text, code) ==
    [WriteHeader(q, code, "gateway") EXCEPT !.body = Append(@, text)]

\* log.Println / log.Printf: the line and the error it prints.
LogLine(q, what, e) == [q EXCEPT !.logs = Append(@, [line |-> what, err |-> e])]

\* ------------------------------------------------------------ the watcher
\* What gpac.From can hand back: a parser and no error, no parser and an
\* error, or a parser together with an error.
LoadResults ==
    [ok : {TRUE}, parser : {TRUE}, text : Texts]
        \cup [ok : {FALSE}, parser : {FALSE}, text : {"pacA"}]
        \cup [ok : {FALSE}, parser : {TRUE}, text : Texts]

\* watch, lines 209-211: sleep, then load the PAC file again.
WatchLoad ==
    /\ ~crashed
    /\ watch.pc = "sleep"
    /\ watch.ticks < MaxTicks
    /\ \E res \in LoadResults :
        /\ heap' = IF res.parser
                     THEN Append(heap, [src |-> res.text, good |-> res.ok])
                     ELSE heap
        /\ watch' = [watch EXCEPT !.pc = "compare",
                                  !.pac = IF res.parser THEN Len(heap) + 1 ELSE 0,
                                  !.err = ~res.ok,
                                  !.ticks = @ + 1,
                                  !.before = pac]
    /\ UNCHANGED <<pac, stored, mutex, crashed, req, tun, task>>

\* Mutant: the parsers are compared, not their texts.
SameSource_Identity(new, old) == new = old

\* Line 213: is the loaded source the active one's?
SameSource(new, old) == heap[new].src = heap[old].src

\* watch, lines 213-222: pac.Source() is called before err is looked at; on
\* a nil parser that is a nil dereference, and nothing recovers the panic.
WatchCompare ==
    /\ ~crashed
    /\ watch.pc = "compare"
    /\ IF watch.pac = 0
         THEN /\ crashed' = TRUE
              /\ UNCHANGED watch
         ELSE /\ watch' = [watch EXCEPT !.pc = IF SameSource(watch.pac, pac)
                                                 THEN "sleep" ELSE "lock"]
              /\ UNCHANGED crashed
    /\ UNCHANGED <<pac, heap, stored, mutex, req, tun, task>>

\* watch, line 224
WatchLock ==
    /\ ~crashed
    /\ watch.pc = "lock"
    /\ mutex = "free"
    /\ mutex' = "watch"
    /\ watch' = [watch EXCEPT !.pc = "store"]
    /\ UNCHANGED <<pac, heap, stored, crashed, req, tun, task>>

\* watch, line 225: the one write of s.pac
WatchStore ==
    /\ ~crashed
    /\ watch.pc = "store"
    /\ pac' = watch.pac
    /\ stored' = stored \cup {watch.pac}
    /\ watch' = [watch EXCEPT !.pc = "unlock"]
    /\ UNCHANGED <<heap, mutex, crashed, req, tun, task>>

\* watch, line 226
WatchUnlock ==
    /\ ~crashed
    /\ watch.pc = "unlock"
    /\ mutex' = "free"
    /\ watch' = [watch EXCEPT !.pc = "sleep"]
    /\ UNCHANGED <<pac, heap, stored, crashed, req, tun, task>>

\* ------------------------------------------------------- request handling
Step(r, q) == req' = [req EXCEPT ![r] = q]

\* handle, lines 32-38: the server hands a request to its handler;
\* handleConnect begins by deriving the lookup URL (lines 102-109).
Handle(r) ==
    /\ ~crashed
    /\ req[r].pc = "idle"
    /\ \E m \in Methods :
        Step(r, [req[r] EXCEPT !.pc = "read", !.method = m,
                               !.url = IF m = "CONNECT"
                                         THEN LookupURL(req[r].host) ELSE @])
    /\ UNCHANGED <<pac, heap, stored, mutex, crashed, watch, tun, task>>

\* Lines 111 and 176: the handler evaluates s.pac; s.Lock() is not called,
\* so nothing orders the read with the watcher's writes: a read of one
\* word returns a value the variable has held, the current one or an
\* earlier one.  The parser it points to is taken as fully visible.
ReadPac(r) ==
    /\ ~crashed
    /\ req[r].pc = "read"
    /\ \E p \in stored : Step(r, [req[r] EXCEPT !.pc = "find", !.ref = p])
    /\ UNCHANGED <<pac, heap, stored, mutex, crashed, watch, tun, task>>

\* The candidate lists a parser can answer with: each candidate remembers
\* the parser that produced it.
CandidateLists(p) ==
    UNION {[1..n -> [src : {p}, type : Kinds]] : n \in 0..MaxCand}

\* Where a handler goes once it holds a candidate list.
LoopEntry(q, list) ==
    IF q.method = "CONNECT"
      THEN IF list = <<>> THEN "check" ELSE "dial"
      ELSE "prune"

\* Lines 111-115 and 176-180: FindProxy on the parser that was read.
FindProxy(r) ==
    /\ ~crashed
    /\ req[r].pc = "find"
    /\ \/ Step(r, [HttpError(req[r], FindErr, 503)
                      EXCEPT !.pc = "done", !.err = FindErr])
       \/ \E list \in CandidateLists(req[r].ref) :
            Step(r, [req[r] EXCEPT !.pc = LoopEntry(req[r], list),
                                   !.proxies = list, !.idx = 1])
    /\ UNCHANGED <<pac, heap, stored, mutex, crashed, watch, tun, task>>

\* Mutant: a failed attempt ends the loop.
NextPc_GiveUp(loop, i, n) == "check"

\* Lines 125-130 and 187-188: after a failed attempt on candidate i of n the
\* range loop goes on to i+1, or ends.
NextPc(loop, i, n) == IF i < n THEN loop ELSE "check"

\* Mutant: the first dial error is kept.
AttemptErr_KeepFirst(old, new) == IF old = NoErr THEN new ELSE old

\* Line 124: dst, err = dialer(...) overwrites err with this attempt's.
AttemptErr(old, new) == new

\* handleConnect, lines 122-131: one turn of the dial loop.
\* Mutant: a failed dial leaves no trace in the log.
DialFailed_Silent(q, i) == q

\* Line 126: log.Println("Dial failed:", err)
DialFailed(q, i) == LogLine(q, "Dial failed", DialErr(i))

Dial(r) ==
    /\ ~crashed
    /\ req[r].pc = "dial"
    /\ LET q == req[r]
           i == q.idx
       IN \E ok \in BOOLEAN :
            IF ok
              THEN Step(r, [q EXCEPT !.proxy = i, !.dst = "open",
                                     !.dialed = Append(@, q.host),
                                     !.err = AttemptErr(q.err, NoErr),
                                     !.tried = Append(@, [cand |-> i, ok |-> TRUE]),
                                     !.pc = "check"])
              ELSE Step(r, [DialFailed(q, i)
                              EXCEPT !.proxy = i,
                                     !.dialed = Append(@, q.host),
                                     !.err = AttemptErr(q.err, DialErr(i)),
                                     !.tried = Append(@, [cand |-> i, ok |-> FALSE]),
                                     !.idx = i + 1,
                                     !.pc = NextPc("dial", i, Len(q.proxies))])
    /\ UNCHANGED <<pac, heap, stored, mutex, crashed, watch, tun, task>>

\* Mutant: the proxy == nil test is missing.
DialVerdict_NoNilTest(q) == IF q.err # NoErr THEN "failed" ELSE "connected"

\* Lines 133 and 138: the two tests after the dial loop.
DialVerdict(q) ==
    IF q.err # NoErr THEN "failed"
    ELSE IF q.proxy = 0 THEN "none"
    ELSE "connected"

\* handleConnect, lines 133-141
CheckDial(r) ==
    /\ ~crashed
    /\ req[r].pc = "check"
    /\ req[r].method = "CONNECT"
    /\ LET q == req[r]
           v == DialVerdict(q)
       IN IF v = "failed"
            THEN Step(r, [HttpError(q, q.err, 503) EXCEPT !.pc = "done"])
            ELSE IF v = "none"
                   THEN Step(r, [HttpError(q, TextNoProxy, 503) EXCEPT !.pc = "done"])
                   ELSE Step(r, [q EXCEPT !.pc = "established"])
    /\ UNCHANGED <<pac, heap, stored, mutex, crashed, watch, tun, task>>

\* Mutant: only a DIRECT candidate gets the 200.
WantsEstablished_DirectOnly(p) == p.type = "DIRECT"

\* Line 143: proxy.IsDirect() || proxy.IsSOCKS()
WantsEstablished(p) == p.type \in {"DIRECT", "SOCKS"}

\* handleConnect, lines 143-145
Established(r) ==
    /\ ~crashed
    /\ req[r].pc = "established"
    /\ LET q == req[r]
       IN Step(r, [(IF WantsEstablished(q.proxies[q.proxy])
                      THEN WriteHeader(q, 200, "gateway")
                      ELSE q)
                    EXCEPT !.pc = "hijack"])
    /\ UNCHANGED <<pac, heap, stored, mutex, crashed, watch, tun, task>>

\* The client's bytes are numbered in the order it sends them.
Numbered(n) == [i \in 1..n |-> i]

\* Lines 153 and 159: Hijack hands back the connection and the n bytes the
\* server had already read from it; combine puts the two together.
Combined(n) ==
    [peeked |-> Numbered(n), buffered |-> n,
     inbox |-> [s \in Sides |-> <<>>],
     end |-> [s \in Sides |-> "open"],
     sent |-> [s \in Sides |-> IF s = "client" THEN Numbered(n) ELSE <<>>],
     delivered |-> [s \in Sides |-> <<>>],
     closed |-> [s \in Sides |-> FALSE]]

\* Lines 161-162: go pipe(dst, src); go pipe(src, dst)
Launched == [d \in Dirs |-> [pc |-> "read", chunk |-> <<>>]]

\* handleConnect, lines 147-164: the type assertion, Hijack, combine and
\* the two pipe goroutines.
Hijack(r) ==
    /\ ~crashed
    /\ req[r].pc = "hijack"
    /\ LET q == req[r]
       IN \E hijacker \in BOOLEAN, ok \in BOOLEAN :
            IF ~hijacker
              THEN /\ Step(r, [HttpError(q, TextNoHijack, 500)
                                  EXCEPT !.pc = "done"])
                   /\ UNCHANGED <<tun, task>>
              ELSE IF ~ok
                     THEN /\ Step(r, [HttpError(q, HijackErr, 503)
                                         EXCEPT !.pc = "done", !.err = HijackErr])
                          /\ UNCHANGED <<tun, task>>
                     ELSE /\ Step(r, [LogLine(q, "tunnel", NoErr)
                                         EXCEPT !.pc = "done", !.hijacked = TRUE,
                                                !.pipes = 2])
                          /\ \E n \in 0..MaxBytes : tun' = Combined(n)
                          /\ task' = Launched
    /\ UNCHANGED <<pac, heap, stored, mutex, crashed, watch>>

\* handleHTTP, line 182: the request headers are pruned once, before the loop.
Prune(r) ==
    /\ ~crashed
    /\ req[r].pc = "prune"
    /\ Step(r, [req[r] EXCEPT !.header = prune(@),
                               !.pc = IF req[r].proxies = <<>>
                                       THEN "check" ELSE "roundtrip"])
    /\ UNCHANGED <<pac, heap, stored, mutex, crashed, watch, tun, task>>

\* Mutant: a relayed response only ends the loop.
AfterForward_LeaveLoop == "check"

\* Lines 198-200: err is nil after a relayed response, the handler returns.
AfterForward == "done"

\* handleHTTP, lines 184-201: one turn of the round-trip loop.  On success
\* the upstream's status and body are relayed and the handler returns; the
\* result of io.Copy is not looked at.
RoundTrip(r) ==
    /\ ~crashed
    /\ req[r].pc = "roundtrip"
    /\ LET q == req[r]
           i == q.idx
       IN \/ \E code \in UpCodes, copied \in BOOLEAN :
               Step(r, [LogLine(WriteHeader(q, code, "upstream"), "forwarded", NoErr)
                          EXCEPT !.perr = NoErr, !.copied = copied,
                                 !.tried = Append(@, [cand |-> i, ok |-> TRUE]),
                                 !.pc = AfterForward])
          \/ Step(r, [q EXCEPT !.perr = RoundTripErr(i),
                               !.tried = Append(@, [cand |-> i, ok |-> FALSE]),
                               !.idx = i + 1,
                               !.pc = NextPc("roundtrip", i, Len(q.proxies))])
    /\ UNCHANGED <<pac, heap, stored, mutex, crashed, watch, tun, task>>

\* Mutant: the last round-trip error is sent to the client.
ExhaustedBody_LastError(q) == q.perr

\* Line 204: what handleHTTP answers once no candidate is left.
ExhaustedBody(q) == TextNoProxy

\* handleHTTP, lines 203-204
Exhausted(r) ==
    /\ ~crashed
    /\ req[r].pc = "check"
    /\ req[r].method = "GET"
    /\ LET q == req[r]
       IN Step(r, [HttpError(LogLine(q, "FAILED", q.perr), ExhaustedBody(q),
                             503)
                    EXCEPT !.pc = "done"])
    /\ UNCHANGED <<pac, heap, stored, mutex, crashed, watch, tun, task>>

Next ==
    \/ WatchLoad
    \/ WatchCompare
    \/ WatchLock
    \/ WatchStore
    \/ WatchUnlock
    \/ \E r \in Reqs : Handle(r)
    \/ \E r \in Reqs : ReadPac(r)
    \/ \E r \in Reqs : FindProxy(r)
    \/ \E r \in Reqs : Dial(r)
    \/ \E r \in Reqs : CheckDial(r)
    \/ \E r \in Reqs : Established(r)
    \/ \E r \in Reqs : Hijack(r)
    \/ \E r \in Reqs : Prune(r)
    \/ \E r \in Reqs : RoundTrip(r)
    \/ \E r \in Reqs : Exhausted(r)

Spec == Init /\ [][Next]_vars

\* ---------------------------------------------------------------- tunnel
\* pipe(destination, source): which connection a direction reads and writes.
Source(d) == IF d = "up" THEN "client" ELSE "upstream"
Destination(d) == IF d = "up" THEN "upstream" ELSE "client"

\* The far end of a connection sends its next byte.
EndpointSend(s) ==
    /\ tun.end[s] = "open"
    /\ ~tun.closed[s]
    /\ Len(tun.sent[s]) < MaxBytes
    /\ LET b == Len(tun.sent[s]) + 1
       IN tun' = [tun EXCEPT !.sent[s] = Append(@, b), !.inbox[s] = Append(@, b)]
    /\ UNCHANGED <<pac, heap, stored, mutex, crashed, watch, req, task>>

\* The far end of a connection ends its stream: end-of-stream, or an error.
EndpointEnd(s) ==
    /\ tun.end[s] = "open"
    /\ \E how \in {"eof", "err"} : tun' = [tun EXCEPT !.end[s] = how]
    /\ UNCHANGED <<pac, heap, stored, mutex, crashed, watch, req, task>>

\* Mutant: pipe returns without closing anything.
AfterCopy_Return == "done"

\* Line 169, then line 168: the deferred calls run last-deferred first.
AfterCopy == "closeSource"

\* Mutant: pipe closes its source only.
AfterCloseSource_Return == "done"

AfterCloseSource == "closeDestination"

\* Mutant: the connection is read before the peeked bytes.
FromPeeked_ConnFirst(s) ==
    s = "client" /\ tun.peeked # <<>> /\ tun.inbox[s] = <<>>

\* combine, line 47: io.MultiReader(peeked, conn) reads the peeked bytes
\* as long as there are any; only the client's connection has some.
FromPeeked(s) == s = "client" /\ tun.peeked # <<>>

\* pipe, line 170: io.Copy reads from the source.  combine's reader (lines
\* 46-53) yields the peeked bytes first and the connection's after them.  A
\* read of a closed connection fails; a read with nothing to return waits.
PipeRead(d) ==
    /\ task[d].pc = "read"
    /\ LET s == Source(d)
       IN IF FromPeeked(s)
              THEN \E n \in 1..Len(tun.peeked) :
                     /\ task' = [task EXCEPT ![d] = [pc |-> "write",
                                    chunk |-> SubSeq(tun.peeked, 1, n)]]
                     /\ tun' = [tun EXCEPT !.peeked =
                                    SubSeq(@, n + 1, Len(@))]
            ELSE IF tun.closed[s]
              THEN /\ task' = [task EXCEPT ![d].pc = AfterCopy]
                   /\ UNCHANGED tun
            ELSE IF tun.inbox[s] # <<>>
              THEN \E n \in 1..Len(tun.inbox[s]) :
                     /\ task' = [task EXCEPT ![d] = [pc |-> "write",
                                    chunk |-> SubSeq(tun.inbox[s], 1, n)]]
                     /\ tun' = [tun EXCEPT !.inbox[s] =
                                    SubSeq(@, n + 1, Len(@))]
            ELSE /\ tun.end[s] # "open"
                 /\ task' = [task EXCEPT ![d].pc = AfterCopy]
                 /\ UNCHANGED tun
    /\ UNCHANGED <<pac, heap, stored, mutex, crashed, watch, req>>

\* pipe, line 170: io.Copy writes what it read to the destination.  The
\* write fails on a closed connection and may fail once the far end is gone.
PipeWrite(d) ==
    /\ task[d].pc = "write"
    /\ LET t == Destination(d)
       IN \/ /\ ~tun.closed[t]
             /\ tun' = [tun EXCEPT !.delivered[t] = @ \o task[d].chunk]
             /\ task' = [task EXCEPT ![d] = [pc |-> "read", chunk |-> <<>>]]
          \/ /\ tun.closed[t] \/ tun.end[t] # "open"
             /\ task' = [task EXCEPT ![d] = [pc |-> AfterCopy, chunk |-> <<>>]]
             /\ UNCHANGED tun
    /\ UNCHANGED <<pac, heap, stored, mutex, crashed, watch, req>>

\* pipe, line 169: defer source.Close()
PipeCloseSource(d) ==
    /\ task[d].pc = "closeSource"
    /\ tun' = [tun EXCEPT !.closed[Source(d)] = TRUE]
    /\ task' = [task EXCEPT ![d].pc = AfterCloseSource]
    /\ UNCHANGED <<pac, heap, stored, mutex, crashed, watch, req>>

\* pipe, line 168: defer destination.Close()
PipeCloseDestination(d) ==
    /\ task[d].pc = "closeDestination"
    /\ tun' = [tun EXCEPT !.closed[Destination(d)] = TRUE]
    /\ task' = [task EXCEPT ![d].pc = "done"]
    /\ UNCHANGED <<pac, heap, stored, mutex, crashed, watch, req>>

\* pipe, lines 167-171
Pipe(d) ==
    \/ PipeRead(d)
    \/ PipeWrite(d)
    \/ PipeCloseSource(d)
    \/ PipeCloseDestination(d)

\* What handleConnect leaves behind at line 164 when its only candidate, of
\* type k, dialled at once and Hijack succeeded.
Tunnelled(k) ==
    [pc |-> "done", method |-> "CONNECT", ref |-> 1,
     proxies |-> <<[src |-> 1, type |-> k]>>, idx |-> 1, proxy |-> 1,
     err |-> NoErr, perr |-> NoErr, dst |-> "open",
     tried |-> <<[cand |-> 1, ok |-> TRUE]>>,
     logs |-> <<[line |-> "tunnel", err |-> NoErr]>>,
     status |-> IF WantsEstablished([src |-> 1, type |-> k])
                  THEN <<[code |-> 200, from |-> "gateway"]>> ELSE <<>>,
     body |-> <<>>, hijacked |-> TRUE, pipes |-> 2, copied |-> FALSE,
     received |-> NoHeader, header |-> NoHeader,
     host |-> DefaultTarget, url |-> LookupURL(DefaultTarget),
     dialed |-> <<DefaultTarget>>]

\* A tunnel just launched: the states Spec reaches by Hijack before the
\* watcher has done anything.
TunnelInit ==
    /\ NewServer
    /\ InitWatch
    /\ \E k \in Kinds : req = [r \in Reqs |-> Tunnelled(k)]
    /\ \E n \in 0..MaxBytes : tun = Combined(n)
    /\ task = Launched

TunnelNext ==
    \/ \E s \in Sides : EndpointSend(s)
    \/ \E s \in Sides : EndpointEnd(s)
    \/ \E d \in Dirs : PipeRead(d)
    \/ \E d \in Dirs : PipeWrite(d)
    \/ \E d \in Dirs : PipeCloseSource(d)
    \/ \E d \in Dirs : PipeCloseDestination(d)

\* Each pipe goroutine keeps running while it has a step to take.
TunnelSpec ==
    /\ TunnelInit
    /\ [][TunnelNext]_vars
    /\ \A d \in Dirs : WF_vars(Pipe(d))

\* ---------------------------------------------------- requests by target
\* A request not yet handled, for the target a.
Arrived(a) ==
    [pc |-> "idle", method |-> "none", ref |-> 0, proxies |-> <<>>,
     idx |-> 0, proxy |-> 0, err |-> NoErr, perr |-> NoErr,
     dst |-> "none", tried |-> <<>>, logs |-> <<>>, status |-> <<>>,
     body |-> <<>>, hijacked |-> FALSE, pipes |-> 0, copied |-> FALSE,
     received |-> NoHeader, header |-> NoHeader,
     host |-> a, url |-> <<>>, dialed |-> <<>>]

TargetInit ==
    /\ NewServer
    /\ InitWatch
    /\ InitTunnel
    /\ \E a \in Targets : req = [r \in Reqs |-> Arrived(a)]

\* The handlers without the watcher.
TargetNext ==
    \/ \E r \in Reqs : Handle(r)
    \/ \E r \in Reqs : ReadPac(r)
    \/ \E r \in Reqs : FindProxy(r)
    \/ \E r \in Reqs : Dial(r)
    \/ \E r \in Reqs : CheckDial(r)
    \/ \E r \in Reqs : Established(r)
    \/ \E r \in Reqs : Hijack(r)
    \/ \E r \in Reqs : Prune(r)
    \/ \E r \in Reqs : RoundTrip(r)
    \/ \E r \in Reqs : Exhausted(r)

TargetSpec == TargetInit /\ [][TargetNext]_vars

\* ------------------------------------------------------- prune by itself
\* A forwarded request at line 182, FindProxy behind it, with header h.
Forwarding(h) ==
    [pc |-> "prune", method |-> "GET", ref |-> 1,
     proxies |-> <<[src |-> 1, type |-> "PROXY"]>>, idx |-> 1, proxy |-> 0,
     err |-> NoErr, perr |-> NoErr, dst |-> "none",
     tried |-> <<>>, logs |-> <<>>, status |-> <<>>,
     body |-> <<>>, hijacked |-> FALSE, pipes |-> 0, copied |-> FALSE,
     received |-> h, header |-> h,
     host |-> DefaultTarget, url |-> <<>>, dialed |-> <<>>]

\* Every header collection a request can arrive with.
PruneInit ==
    /\ NewServer
    /\ InitWatch
    /\ InitTunnel
    /\ \E h \in Headers : req = [r \in Reqs |-> Forwarding(h)]

PruneNext == \E r \in Reqs : Prune(r)

PruneSpec == PruneInit /\ [][PruneNext]_vars

\* ================================================================ claims
Done(r) == req[r].pc = "done"
Gateway(code) == [code |-> code, from |-> "gateway"]
AllFailed(t) == \A k \in 1..Len(t) : ~t[k].ok
\* every candidate of a non-empty list was attempted and none worked
ExhaustedAll(q) ==
    /\ q.proxies # <<>>
    /\ Len(q.tried) = Len(q.proxies)
    /\ AllFailed(q.tried)

\* What the client can tell happened, from the first status line on the wire
\* and from the tunnel.
Outcomes(q) ==
    {o \in {"tunnel", "forward", "503", "500"} :
        \/ o = "tunnel" /\ q.pipes = 2
        \/ o = "forward" /\ q.status # <<>> /\ q.status[1].from = "upstream"
        \/ o = "503" /\ q.status # <<>> /\ q.status[1] = Gateway(503)
        \/ o = "500" /\ q.status # <<>> /\ q.status[1] = Gateway(500)}

\* C1: a handler that has returned produced exactly one of tunnel
\* established, forward response written, 503 written, 500 written, and
\* asked for at most one status line (no 500 or 503 after a 200).
C1_ExactlyOneOutcome ==
    \A r \in Reqs :
        Done(r) => /\ Cardinality(Outcomes(req[r])) = 1
                   /\ Len(req[r].status) <= 1

\* C2: the attempts of a request are candidates 1, 2, 3, ... of the list
\* FindProxy returned, each once; only the last attempt can have succeeded;
\* and the loop is left without a success only when every candidate was tried.
C2_AttemptsInOrder ==
    \A r \in Reqs :
        LET q == req[r]
            t == q.tried
        IN /\ Len(t) <= Len(q.proxies)
           /\ \A k \in 1..Len(t) : t[k].cand = k
           /\ \A k \in 1..Len(t) : t[k].ok => k = Len(t)
           /\ (t # <<>> /\ t[Len(t)].ok) => q.pc \notin {"dial", "roundtrip"}
           /\ (q.pc \in {"check", "done"} /\ q.proxies # <<>> /\ AllFailed(t))
                 => Len(t) = Len(q.proxies)

\* C2's case: of three candidates the first failed, the second worked and
\* the third was never tried.
C2_Witness ==
    \E r \in Reqs :
        /\ Done(r)
        /\ Len(req[r].proxies) = 3
        /\ req[r].tried = <<[cand |-> 1, ok |-> FALSE], [cand |-> 2, ok |-> TRUE]>>

\* C3: a request whose resolution failed or returned no candidate is
\* answered 503, makes no dial and no round trip, and never reaches the
\* tunnel steps.
C3_NoCandidate503 ==
    \A r \in Reqs :
        LET q == req[r]
        IN q.proxies = <<>> =>
             /\ q.tried = <<>>
             /\ q.pc \notin {"dial", "roundtrip", "established", "hijack"}
             /\ Done(r) => q.status = <<Gateway(503)>> /\ q.pipes = 0

\* C3's case: FindProxy answered with an empty list on the CONNECT path.
C3_Witness ==
    \E r \in Reqs :
        /\ Done(r)
        /\ req[r].method = "CONNECT"
        /\ req[r].err = NoErr
        /\ req[r].proxies = <<>>
        /\ req[r].body = <<TextNoProxy>>

\* C4: a CONNECT whose every dial failed is answered 503 with the error of
\* the last candidate's dial, no hijack, no tunnel.
C4_LastDialError ==
    \A r \in Reqs :
        LET q == req[r]
        IN (Done(r) /\ q.method = "CONNECT" /\ ExhaustedAll(q)) =>
             /\ q.status = <<Gateway(503)>>
             /\ q.body = <<DialErr(Len(q.proxies))>>
             /\ ~q.hijacked
             /\ q.pipes = 0
             /\ task = [d \in Dirs |-> [pc |-> "none", chunk |-> <<>>]]

\* C4's case: three candidates, three failed dials.
C4_Witness ==
    \E r \in Reqs :
        /\ Done(r)
        /\ req[r].method = "CONNECT"
        /\ Len(req[r].tried) = 3
        /\ ExhaustedAll(req[r])

\* The error of the last attempt of an exhausted request.
LastError(q) ==
    IF q.method = "CONNECT" THEN DialErr(Len(q.proxies))
                            ELSE RoundTripErr(Len(q.proxies))

\* C5 as claimed: on exhaustion, on either path, the client gets 503 and
\* the body carries the last candidate's error.
C5_BodyHasLastError ==
    \A r \in Reqs :
        LET q == req[r]
        IN (Done(r) /\ ExhaustedAll(q)) =>
             /\ q.status = <<Gateway(503)>>
             /\ q.body = <<LastError(q)>>

\* C5 amended: on exhaustion the client gets 503 on either path; the body
\* is the last dial error on the CONNECT path, and on the forwarding path
\* the fixed text "No Proxy Available", the last round-trip error going to
\* the log line only.
C5_ExhaustionAnswer ==
    \A r \in Reqs :
        LET q == req[r]
        IN (Done(r) /\ ExhaustedAll(q)) =>
             /\ q.status = <<Gateway(503)>>
             /\ q.method = "CONNECT" => q.body = <<LastError(q)>>
             /\ q.method = "GET" =>
                   /\ q.body = <<TextNoProxy>>
                   /\ q.logs = <<[line |-> "FAILED", err |-> LastError(q)]>>

\* C5's case: a forwarded request whose two candidates both failed.
C5_Witness ==
    \E r \in Reqs :
        /\ Done(r)
        /\ req[r].method = "GET"
        /\ Len(req[r].tried) = 2
        /\ ExhaustedAll(req[r])

\* The candidate whose attempt succeeded.
Winner(q) == q.proxies[Len(q.tried)]

C7_FailedReloadKeepsSource ==
    /\ (watch.err /\ watch.pc = "sleep") => pac = watch.before
    /\ watch.err => ~crashed

\* C8, the tick: whether a tick's successful load was one of the same text.
TickUnchanged == heap[watch.pac].src = heap[watch.before].src

\* C8: after a tick whose load succeeded the active parser is the very
\* object from before the tick when the text is the same, and the newly
\* loaded object when it differs; and a request keeps the parser it read:
\* its reference never changes and all its candidates come from it.
C8_ReloadSwap ==
    /\ [](/\ (watch.pc = "sleep" /\ watch.ticks > 0 /\ ~watch.err) =>
                pac = IF TickUnchanged THEN watch.before ELSE watch.pac
          /\ \A r \in Reqs : \A k \in 1..Len(req[r].proxies) :
                /\ req[r].proxies[k].src = req[r].ref
                /\ req[r].ref \in 1..Len(heap))
    /\ [][\A r \in Reqs : req[r].ref # 0 =>
              /\ req'[r].ref = req[r].ref
              /\ req[r].proxies # <<>> => req'[r].proxies = req[r].proxies]_vars

\* C8's case: the request read parser 1, a tick then installed a parser
\* with another text, and the request finished its attempts on the
\* candidates of parser 1.
C8_Witness ==
    \E r \in Reqs :
        /\ Done(r)
        /\ req[r].ref = 1
        /\ req[r].tried # <<>>
        /\ req[r].proxies[1].src = 1
        /\ watch.pc = "sleep" /\ watch.ticks > 0 /\ ~watch.err
        /\ pac = watch.pac /\ pac # 1

\* C9: no handler is about to read s.pac without the mutex while the
\* watcher is about to write it.
C9_NoUnlockedReadDuringWrite ==
    ~ \E r \in Reqs :
        /\ req[r].pc = "read"
        /\ mutex # r
        /\ watch.pc = "store"

\* One pipe goroutine's io.Copy has returned.
CopyEnded == \E d \in Dirs : task[d].pc \in {"closeSource", "closeDestination", "done"}
EndpointEnded == \E s \in Sides : tun.end[s] # "open"
BothClosed == \A s \in Sides : tun.closed[s]

IsPrefix(s, t) == Len(s) <= Len(t) /\ s = SubSeq(t, 1, Len(s))

\* C11: what the upstream has received, and what the up copy holds to
\* write next, is a prefix of the bytes Hijack had buffered followed by the
\* bytes the client sent afterwards; what the client has received is a
\* prefix of what the upstream sent; nothing is lost ahead of the bytes
\* still waiting; and the copies close the raw client connection.
C11_TunnelKeepsOrder ==
    /\ IsPrefix(tun.delivered["upstream"] \o task["up"].chunk, tun.sent["client"])
    /\ IsPrefix(tun.delivered["client"] \o task["down"].chunk, tun.sent["upstream"])
    /\ task["up"].pc \in {"read", "write"} =>
          tun.delivered["upstream"] \o task["up"].chunk \o tun.peeked
              \o tun.inbox["client"] = tun.sent["client"]
    /\ task["down"].pc \in {"read", "write"} =>
          tun.delivered["client"] \o task["down"].chunk
              \o tun.inbox["upstream"] = tun.sent["upstream"]
    /\ (\E d \in Dirs : task[d].pc = "done") => tun.closed["client"]

\* C11's case: one byte was buffered at hijack time, the client sent a
\* second one, both reached the upstream and the upstream's byte the client.
C11_Witness ==
    /\ tun.buffered = 1
    /\ tun.delivered["upstream"] = <<1, 2>>
    /\ tun.delivered["client"] = <<1>>

\* prune has run on the request's headers
Pruned(q) == q.method = "GET" /\ q.pc \in {"roundtrip", "check", "done"}

\* C12: after prune no header is left under one of the eight hop-by-hop
\* names, except a Te header whose value is exactly "trailers".
C12_NoHopHeaderLeft ==
    \A r \in Reqs : Pruned(req[r]) =>
        \A i \in 1..Len(hopHeaders) :
            hopHeaders[i] \in DOMAIN req[r].header =>
                /\ hopHeaders[i] = "Te"
                /\ req[r].header["Te"] = <<(<<"trailers">>)>>

\* C13: pruning what prune returned changes nothing.
C13_PruneIdempotent ==
    \A r \in Reqs : Pruned(req[r]) =>
        /\ req[r].header = prune(req[r].received)
        /\ prune(req[r].header) = req[r].header

\* C13's case: two Connection lines, the first naming X-Foo and Te, the
\* second naming Connection itself, and prune took all of them away.
C13_Witness ==
    \E r \in Reqs :
        /\ Pruned(req[r])
        /\ DOMAIN req[r].received = {"Connection", "Te", "X-Foo"}
        /\ req[r].received["Connection"] = <<(<<"x-foo", " te">>), (<<"connection", "">>)>>
        /\ req[r].header = NoHeader

\* the header names a Connection value lists
Listed(c) == {CanonicalKey(TrimSpace(c[j])) : j \in 1..Len(c)} \ {""}

\* C15: after prune no header is left that a token of any of the
\* request's Connection header lines names.
C15_NoListedHeaderLeft ==
    \A r \in Reqs :
        (Pruned(req[r]) /\ "Connection" \in DOMAIN req[r].received) =>
            \A i \in 1..Len(req[r].received["Connection"]) :
                Listed(req[r].received["Connection"][i])
                    \cap DOMAIN req[r].header = {}

C16_ForwardedIsTerminal ==
    \A r \in Reqs : (req[r].method = "GET") =>
        \A k \in 1..Len(req[r].tried) : req[r].tried[k].ok =>
            /\ k = Len(req[r].tried)
            /\ Done(r)
            /\ Len(req[r].status) = 1
            /\ req[r].status[1].from = "upstream"
            /\ req[r].body = <<>>

\* C16's case: the first of two candidates answered, the body copy broke
\* off, and the second candidate was left alone.
C16_Witness ==
    \E r \in Reqs :
        /\ req[r].method = "GET"
        /\ Done(r)
        /\ Len(req[r].proxies) = 2
        /\ req[r].tried = <<[cand |-> 1, ok |-> TRUE]>>
        /\ ~req[r].copied

\* C17: when Hijack fails after a dial succeeded, the client is answered
\* 503, no pipe is started, and the upstream connection the dial opened is
\* closed by the time the handler has returned.
C17_HijackFailureClosesUpstream ==
    \A r \in Reqs :
        (Done(r) /\ req[r].method = "CONNECT" /\ req[r].err = HijackErr) =>
            /\ \E k \in 1..Len(req[r].status) : req[r].status[k] = Gateway(503)
            /\ req[r].pipes = 0
            /\ task = [d \in Dirs |-> [pc |-> "none", chunk |-> <<>>]]
            /\ req[r].dst # "open"

\* the log lines written for single attempts, and the attempts that failed
AttemptLines(q) ==
    SelectSeq(q.logs, LAMBDA l : l.line \notin {"tunnel", "forwarded", "FAILED"})
FailedAttempts(q) == SelectSeq(q.tried, LAMBDA t : ~t.ok)

\* C18: on either path every failed attempt has put exactly one failure
\* line in the log, in the order of the attempts, by the time the next
\* candidate is tried.
C18_OneLogLinePerFailure ==
    \A r \in Reqs :
        /\ Len(AttemptLines(req[r])) = Len(FailedAttempts(req[r]))
        /\ \A k \in 1..Len(AttemptLines(req[r])) :
              AttemptLines(req[r])[k].err.cand = FailedAttempts(req[r])[k].cand

\* C18 amended: on the CONNECT path every failed dial has put exactly one
\* "Dial failed" line with its error in the log, in the order of the
\* attempts; on the forwarding path a failed round trip writes nothing:
\* the log stays empty until the request ends, and then holds the one
\* line of the successful candidate or the one FAILED line with the last
\* error.
C18_FailureLogLines ==
    \A r \in Reqs :
        LET q == req[r]
        IN /\ q.method = "CONNECT" =>
                /\ Len(AttemptLines(q)) = Len(FailedAttempts(q))
                /\ \A k \in 1..Len(AttemptLines(q)) :
                      AttemptLines(q)[k] =
                          [line |-> "Dial failed",
                           err |-> DialErr(FailedAttempts(q)[k].cand)]
                /\ \A k \in 1..Len(q.logs) :
                      q.logs[k].line = "tunnel" => k = Len(q.logs)
           /\ q.method = "GET" =>
                /\ AttemptLines(q) = <<>>
                /\ ~Done(r) => q.logs = <<>>
                /\ (Done(r) /\ q.tried # <<>> /\ q.tried[Len(q.tried)].ok) =>
                      q.logs = <<[line |-> "forwarded", err |-> NoErr]>>
                /\ (Done(r) /\ q.err # FindErr
                      /\ (q.tried = <<>> \/ ~q.tried[Len(q.tried)].ok)) =>
                      q.logs = <<[line |-> "FAILED", err |-> q.perr]>>

\* C18's case: the dials through A and B failed, the one through C
\* succeeded and the tunnel was set up.
C18_Witness ==
    \E r \in Reqs :
        /\ req[r].method = "CONNECT"
        /\ req[r].tried = <<[cand |-> 1, ok |-> FALSE], [cand |-> 2, ok |-> FALSE],
                            [cand |-> 3, ok |-> TRUE]>>
        /\ req[r].logs = <<[line |-> "Dial failed", err |-> DialErr(1)],
                           [line |-> "Dial failed", err |-> DialErr(2)],
                           [line |-> "tunnel", err |-> NoErr]>>

\* C19: a request takes its whole candidate list from the one parser it
\* read, and both that parser and the one s.pac designates at any moment
\* are parsers whose load succeeded.
C19_OneLoadedSource ==
    /\ pac \in 1..Len(heap)
    /\ heap[pac].good
    /\ \A r \in Reqs : req[r].ref # 0 =>
          /\ req[r].ref \in 1..Len(heap)
          /\ heap[req[r].ref].good
          /\ \A k \in 1..Len(req[r].proxies) : req[r].proxies[k].src = req[r].ref

AllPipesDone == \A d \in Dirs : task[d].pc = "done"

====
